---- MODULE Spec2Model ----
(***************************************************************************)
(* Model of streamlit_app.py: the cached downloader _download, the dataset *)
(* builder build_dataset, the re-basing helper normalise and the pass of   *)
(* main() that calls them.  The cache of _download lives as long as the    *)
(* function object does: passes that share it form a session.              *)
(*                                                                         *)
(* Prices are float64 in the program.  They are modelled by a binary       *)
(* floating-point format of the same design (round to nearest, ties to     *)
(* even, gradual underflow, overflow to infinity, NaN) with a mantissa of  *)
(* Precision bits and exponents EMin..EMax, so that rounding, overflow and *)
(* division by zero behave as they do in the program.  Prices are not      *)
(* negative, so the sign bit is left out.                                  *)
(***************************************************************************)
EXTENDS Integers, Sequences, FiniteSets, TLC

----------------------------------------------------------------------------
(* Bounds of the model *)

\* mantissa width of the floating-point format (53 in float64)
Precision == 5

\* largest exponent of the format: the largest finite value is
\* (2^Precision - 1) * 2^EMax
EMax == 8

\* smallest exponent of the format (subnormal values have this exponent)
EMin == 0 - EMax - 4

\* trading dates are 1..MaxDate
MaxDate == 2

\* the start dates the sidebar can select are 1..NumStarts
NumStarts == 5

\* rows of the tables normalise is applied to on its own
MaxRows == 2

----------------------------------------------------------------------------
(* float64 arithmetic *)

RECURSIVE Pow2(_)
Pow2(k) == IF k = 0 THEN 1 ELSE 2 * Pow2(k - 1)

NaN == [k |-> "nan"]
Inf == [k |-> "inf"]
Fin(m, e) == [k |-> "fin", m |-> m, e |-> e]
Zero == Fin(0, EMin)

IsNaN(x) == x.k = "nan"
IsInf(x) == x.k = "inf"
IsFin(x) == x.k = "fin"
IsZero(x) == IsFin(x) /\ x.m = 0

RECURSIVE BitLen(_)
\* the number of binary digits of a positive integer
BitLen(n) == IF n = 0 THEN 0 ELSE 1 + BitLen(n \div 2)

\* N * 2^s / D as a fraction of integers
Scaled(N, D, s) ==
    [num |-> N * Pow2(IF s > 0 THEN s ELSE 0),
     den |-> D * Pow2(IF s < 0 THEN 0 - s ELSE 0)]

\* the float nearest to the positive rational (N / D) * 2^E, ties to even
RoundQ(N, D, E) ==
    LET \* the shift that brings the quotient into [2^(p-1), 2^p): the quotient
        \* lies between 2^(L-1) and 2^(L+1)
        L == BitLen(N) - BitLen(D)
        s0 == IF Scaled(N, D, Precision - L).num
                    < Pow2(Precision) * Scaled(N, D, Precision - L).den
              THEN Precision - L ELSE Precision - L - 1
        \* gradual underflow: the exponent is never below EMin
        s1 == IF E - s0 < EMin THEN E - EMin ELSE s0
        \* below half of the smallest subnormal value
        tiny == s1 < s0 - Precision - 1
        s == IF tiny THEN s0 ELSE s1
        f == Scaled(N, D, s)
        q == f.num \div f.den
        r == f.num - q * f.den
        up == (2 * r > f.den) \/ (2 * r = f.den /\ q % 2 = 1)
        m == IF up THEN q + 1 ELSE q
        e == E - s
    IN  IF tiny THEN Zero
        ELSE IF m = Pow2(Precision)
             THEN (IF e + 1 > EMax THEN Inf ELSE Fin(Pow2(Precision - 1), e + 1))
             ELSE (IF e > EMax THEN Inf ELSE Fin(m, e))

FromInt(n) == IF n = 0 THEN Zero ELSE RoundQ(n, 1, 0)

FMul(x, y) ==
    IF IsNaN(x) \/ IsNaN(y) THEN NaN
    ELSE IF IsInf(x) \/ IsInf(y)
         THEN (IF IsZero(x) \/ IsZero(y) THEN NaN ELSE Inf)
    ELSE IF x.m = 0 \/ y.m = 0 THEN Zero
    ELSE RoundQ(x.m * y.m, 1, x.e + y.e)

FDiv(x, y) ==
    IF IsNaN(x) \/ IsNaN(y) THEN NaN
    ELSE IF IsInf(x) THEN (IF IsInf(y) THEN NaN ELSE Inf)
    ELSE IF IsInf(y) THEN Zero
    ELSE IF y.m = 0 THEN (IF x.m = 0 THEN NaN ELSE Inf)
    ELSE IF x.m = 0 THEN Zero
    ELSE RoundQ(x.m, y.m, x.e - y.e)

----------------------------------------------------------------------------
(* Program constants *)

TICKER_BASE == "QQQ"
TICKER_LEV == "QQQ3.MI"

\* name of the synthetic column ("QQQ x 3" in the source)
SYNTHETIC == "QQQx3"

\* @lru_cache(maxsize=8)
maxsize == 8

\* variant: a factor of two
Two == FromInt(2)

\* merged[TICKER_BASE] * 3
Three == FromInt(3)

\* df.div(df.iloc[0]).mul(100)
Hundred == FromInt(100)

Columns == {TICKER_BASE, TICKER_LEV, SYNTHETIC}

----------------------------------------------------------------------------
(* Values the provider and the callers can supply *)

\* prices a provider row can carry; NaN is a missing price
Prices == {FromInt(0), FromInt(1), FromInt(11)}
Cells == Prices \cup {NaN}

Dates == 1..MaxDate
Starts == 1..NumStarts

\* the start date main() offers by default (value=date(2020, 1, 1))
DefaultStart == 1

None == << >>
Some(x) == << x >>

RECURSIVE SortedDates(_)
\* the dates of a set in ascending order
SortedDates(S) ==
    IF S = {} THEN << >>
    ELSE LET d == CHOOSE x \in S : \A y \in S : x <= y
         IN  << d >> \o SortedDates(S \ {d})

\* the raw close of a row that also carries an adjusted close
RawCloses == {NaN, FromInt(1)}

\* a provider response: the price fields it carries and its rows by date.
\* A field a response does not carry is never read.
ResponsesWith(cols) ==
    { [columns |-> cols,
       rows |-> [i \in 1..Len(SortedDates(ds)) |->
                   [date  |-> SortedDates(ds)[i],
                    close |-> f[SortedDates(ds)[i]].close,
                    adj   |-> f[SortedDates(ds)[i]].adj]]] :
        ds \in SUBSET Dates,
        f \in [Dates -> [close : (IF "Close" \notin cols THEN {NaN}
                                  ELSE IF "Adj Close" \in cols THEN RawCloses
                                  ELSE Cells),
                         adj   : (IF "Adj Close" \in cols THEN Cells ELSE {NaN})]] }

\* every response yf.download can give: with or without either price field,
\* with or without rows
Responses == UNION { ResponsesWith(cols) : cols \in SUBSET {"Close", "Adj Close"} }

\* the provider's data in a session: one trading day, two once the next day is
\* published, the leveraged fund at eleven times the base price
Published(symbol, e) ==
    [columns |-> {"Close"},
     rows |-> [i \in 1..(e + 1) |->
                 [date |-> i,
                  close |-> (IF symbol = TICKER_BASE THEN FromInt(1) ELSE FromInt(11)),
                  adj |-> NaN]]]

----------------------------------------------------------------------------
(* _download *)

\* close_col = "Adj Close" if "Adj Close" in df.columns else "Close"
CloseCol(resp) == IF "Adj Close" \in resp.columns THEN "Adj Close" ELSE "Close"

\* variant: only the raw close is looked for
RaisesWithoutClose(resp) == "Close" \notin resp.columns

\* if close_col not in df.columns: raise ValueError
Raises(resp) == CloseCol(resp) \notin resp.columns

\* df[[close_col]].rename(columns={close_col: symbol}): one price per date
SelectColumn(resp) ==
    [i \in 1..Len(resp.rows) |->
        [date |-> resp.rows[i].date,
         price |-> (IF CloseCol(resp) = "Adj Close"
                    THEN resp.rows[i].adj ELSE resp.rows[i].close)]]

\* .dropna() on the one-column frame
DropMissing(series) ==
    LET Present(r) == ~IsNaN(r.price)
    IN  SelectSeq(series, Present)

\* the frame _download returns when it does not raise.  A row's date is the
\* tz-naive value its index has after lines 51-52; a response has one row per date.
DownloadFrame(resp) == DropMissing(SelectColumn(resp))

----------------------------------------------------------------------------
(* functools.lru_cache: entries from least to most recently used *)

CacheKeys(c) == { c[i].key : i \in 1..Len(c) }

Lookup(c, key) == (CHOOSE i \in 1..Len(c) : c[i].key = key)

Without(c, key) ==
    LET Other(en) == en.key # key
    IN  SelectSeq(c, Other)

\* a hit makes the entry the most recently used one
Touch(c, key) == Without(c, key) \o << c[Lookup(c, key)] >>

\* variant: a full cache gives up its most recently used entry
StoreDropNewest(c, key, value) ==
    LET room == IF Len(c) >= maxsize THEN SubSeq(c, 1, Len(c) - 1) ELSE c
    IN  room \o << [key |-> key, value |-> value] >>

\* a miss stores the result; a full cache gives up its least recently used entry
Store(c, key, value) ==
    LET room == IF Len(c) >= maxsize THEN Tail(c) ELSE c
    IN  room \o << [key |-> key, value |-> value] >>

----------------------------------------------------------------------------
(* build_dataset *)

SeriesDates(series) == { series[i].date : i \in 1..Len(series) }

PriceAt(series, d) ==
    IF d \in SeriesDates(series)
    THEN series[CHOOSE i \in 1..Len(series) : series[i].date = d].price
    ELSE NaN

\* variant: the frames are put side by side row by row, the index ignored
ConcatByPosition(a, b) ==
    LET n == IF Len(a) >= Len(b) THEN Len(a) ELSE Len(b)
    IN  [i \in 1..n |->
            [date |-> IF i <= Len(a) THEN a[i].date ELSE b[i].date,
             v |-> (TICKER_BASE :> (IF i <= Len(a) THEN a[i].price ELSE NaN))
                   @@ (TICKER_LEV :> (IF i <= Len(b) THEN b[i].price ELSE NaN))]]

\* pd.concat([qqq, qqq3], axis=1): outer join on the date index
Concat(a, b) ==
    LET ds == SortedDates(SeriesDates(a) \cup SeriesDates(b))
    IN  [i \in 1..Len(ds) |->
            [date |-> ds[i],
             v |-> (TICKER_BASE :> PriceAt(a, ds[i])) @@ (TICKER_LEV :> PriceAt(b, ds[i]))]]

\* .dropna(how="all")
DropAllMissing(t) ==
    LET Kept(r) == \E c \in DOMAIN r.v : ~IsNaN(r.v[c])
    IN  SelectSeq(t, Kept)

\* variant: the synthetic column is computed from the leveraged column
AddSyntheticFromLeveraged(t) ==
    [i \in 1..Len(t) |->
        [date |-> t[i].date,
         v |-> t[i].v @@ (SYNTHETIC :> FMul(t[i].v[TICKER_LEV], FromInt(3)))]]

\* merged["QQQx3"] = merged[TICKER_BASE] * 3
AddSynthetic(t) ==
    [i \in 1..Len(t) |->
        [date |-> t[i].date,
         v |-> t[i].v @@ (SYNTHETIC :> FMul(t[i].v[TICKER_BASE], Three))]]

\* variant: the final dropna() is left out
KeepMissing(t) == t

\* variant: the final dropna() drops only the rows that are missing everywhere
DropWhereAllMissing(t) ==
    LET Kept(r) == \E c \in DOMAIN r.v : ~IsNaN(r.v[c])
    IN  SelectSeq(t, Kept)

\* .dropna()
DropAnyMissing(t) ==
    LET Kept(r) == \A c \in DOMAIN r.v : ~IsNaN(r.v[c])
    IN  SelectSeq(t, Kept)

\* lines 64-66 of build_dataset
Merged(a, b) == DropAnyMissing(AddSynthetic(DropAllMissing(Concat(a, b))))

----------------------------------------------------------------------------
(* normalise *)

\* variant: the frame is divided by its last row
RebaseOnLast(df) ==
    [i \in 1..Len(df) |->
        [date |-> df[i].date,
         v |-> [c \in DOMAIN df[i].v |->
                  FMul(FDiv(df[i].v[c], df[Len(df)].v[c]), FromInt(100))]]]

\* df.div(df.iloc[0]).mul(100)
Rebase(df) ==
    [i \in 1..Len(df) |->
        [date |-> df[i].date,
         v |-> [c \in DOMAIN df[i].v |-> FMul(FDiv(df[i].v[c], df[1].v[c]), Hundred)]]]

\* variant: the test for an empty frame is left out
NeverEmpty(df) == FALSE

\* df.empty
Empty(df) == Len(df) = 0

\* df.iloc[0] raises IndexError on a frame without rows
ILocRaises(df) == Len(df) = 0

normalise(df) ==
    IF Empty(df) THEN [raised |-> FALSE, frame |-> df]
    ELSE IF ILocRaises(df) THEN [raised |-> TRUE, frame |-> << >>]
    ELSE [raised |-> FALSE, frame |-> Rebase(df)]

\* the tables normalise is applied to on its own: any prices, zero and
\* infinite ones included, on up to MaxRows dates, and the table without rows
TableCells == Prices \cup {Inf}

Table3(rows) == [i \in 1..Len(rows) |-> [date |-> i, v |-> rows[i]]]

----------------------------------------------------------------------------
(* State *)

VARIABLES
    cache,      \* the lru_cache of _download
    epoch,      \* 1 once the provider has published the next trading day
    pc,         \* position of the script pass
    start,      \* build_dataset's argument
    view_mode,  \* the sidebar's display mode
    qqq,        \* build_dataset's local qqq
    qqq3,       \* build_dataset's local qqq3
    data,       \* main's local data
    display_df, \* main's local display_df
    error,      \* the exception that ended the pass
    calls,      \* the symbols yf.download was called for in this pass
    fetch,      \* the latest call of _download in this pass
    seen        \* history: every key _download has returned a frame for, from
                \* least to most recently used, with the frame it returned
                \* (kept for the maxsize most recently used keys)

vars == << cache, epoch, pc, start, view_mode, qqq, qqq3, data, display_df,
           error, calls, fetch, seen >>

Modes == {"Raw price", "Normalised (start = 100)"}

\* "Normalised" in view_mode
IsNormalised(mode) == mode = "Normalised (start = 100)"

Locals ==
    /\ start = 0
    /\ view_mode = ""
    /\ qqq = None
    /\ qqq3 = None
    /\ data = None
    /\ display_df = None
    /\ error = ""
    /\ calls = << >>
    /\ fetch = None

Init ==
    /\ cache = << >>
    /\ seen = << >>
    /\ epoch = 0
    /\ pc = "idle"
    /\ Locals

\* normalise on its own: any table is its argument
InitNormalise ==
    /\ cache = << >>
    /\ seen = << >>
    /\ epoch = 0
    /\ pc = "table"
    /\ start = 0
    /\ view_mode = "Normalised (start = 100)"
    /\ qqq = None
    /\ qqq3 = None
    /\ \E n \in 0..MaxRows : \E rows \in [1..n -> [Columns -> TableCells]] :
            data = Some(Table3(rows))
    /\ display_df = None
    /\ error = ""
    /\ calls = << >>
    /\ fetch = None

----------------------------------------------------------------------------
(* Actions *)

\* main() reads the sidebar and calls build_dataset(start)
Call(s, mode) ==
    /\ pc = "idle"
    /\ pc' = "base"
    /\ start' = s
    /\ view_mode' = mode
    /\ UNCHANGED << cache, epoch, qqq, qqq3, data, display_df, error, calls, fetch, seen >>

Symbol == IF pc = "base" THEN TICKER_BASE ELSE TICKER_LEV

Key == << Symbol, start >>

\* variant: the leveraged symbol is fetched before a failure of the base fetch
\* is acted on
NextPcFetchBoth(at, raised) ==
    IF at = "base" THEN "lev" ELSE IF raised \/ error # "" THEN "failed" ELSE "merge"

\* where build_dataset goes on after a call of _download
NextPc(at, raised) ==
    IF raised THEN "failed" ELSE IF at = "base" THEN "lev" ELSE "merge"

\* number of keys used after key, and the frame last returned for it
Rank(key) == Len(seen) - Lookup(seen, key)

Bind(frame) ==
    /\ qqq' = IF pc = "base" THEN Some(frame) ELSE qqq
    /\ qqq3' = IF pc = "lev" THEN Some(frame) ELSE qqq3

Known(key) == key \in CacheKeys(seen)

\* key becomes the most recently used key of the history; a frame is remembered
\* for the maxsize most recently used keys
Remember(key, frame) ==
    LET order == Without(seen, key) \o << [key |-> key, value |-> Some(frame)] >>
    IN  [i \in 1..Len(order) |->
            IF Len(order) - i < maxsize THEN order[i]
            ELSE [key |-> order[i].key, value |-> None]]

\* what a call of _download did: the key, whether the cache answered, the
\* provider's response if it was called, and the outcome
FetchRecord(key, hit, resp, raised, result) ==
    [key |-> key, hit |-> hit, called |-> ~hit,
     columns |-> resp.columns, norows |-> (Len(resp.rows) = 0),
     raised |-> raised,
     known |-> Known(key),
     rank |-> IF Known(key) THEN Rank(key) ELSE 0,
     prior |-> IF Known(key) THEN seen[Lookup(seen, key)].value ELSE None,
     result |-> result]

NoResponse == [columns |-> {}, rows |-> << [date |-> 0] >>]

\* _download(symbol, start) answered by the cache
Hit ==
    /\ pc \in {"base", "lev"}
    /\ Key \in CacheKeys(cache)
    /\ LET frame == cache[Lookup(cache, Key)].value
       IN  /\ Bind(frame)
           /\ fetch' = Some(FetchRecord(Key, TRUE, NoResponse, FALSE, Some(frame)))
           /\ seen' = Remember(Key, frame)
    /\ cache' = Touch(cache, Key)
    /\ pc' = NextPc(pc, FALSE)
    /\ UNCHANGED << epoch, start, view_mode, data, display_df, error, calls >>

\* _download(symbol, start) run on the provider's response
Miss(resp) ==
    /\ pc \in {"base", "lev"}
    /\ Key \notin CacheKeys(cache)
    /\ calls' = Append(calls, Symbol)
    /\ pc' = NextPc(pc, Raises(resp))
    /\ IF Raises(resp)
       THEN /\ error' = "DataUnavailable"
            /\ fetch' = Some(FetchRecord(Key, FALSE, resp, TRUE, None))
            /\ UNCHANGED << cache, seen, qqq, qqq3 >>
       ELSE /\ Bind(DownloadFrame(resp))
            /\ fetch' = Some(FetchRecord(Key, FALSE, resp, FALSE, Some(DownloadFrame(resp))))
            /\ cache' = Store(cache, Key, DownloadFrame(resp))
            /\ seen' = Remember(Key, DownloadFrame(resp))
            /\ UNCHANGED error
    /\ UNCHANGED << epoch, start, view_mode, data, display_df >>

\* lines 64-74 of build_dataset and the assignment to data in main
Merge ==
    /\ pc = "merge"
    /\ LET merged == Merged(qqq[1], qqq3[1])
       IN  IF Empty(merged)
           THEN /\ error' = "EmptyOverlap"
                /\ pc' = "failed"
                /\ UNCHANGED data
           ELSE /\ data' = Some(merged)
                /\ pc' = "built"
                /\ UNCHANGED error
    /\ UNCHANGED << cache, epoch, start, view_mode, qqq, qqq3, display_df, calls, fetch, seen >>

\* display_df = normalise(data) if "Normalised" in view_mode else data
Render ==
    /\ pc = "built"
    /\ IF IsNormalised(view_mode)
       THEN IF normalise(data[1]).raised
            THEN /\ error' = "IndexError"
                 /\ pc' = "failed"
                 /\ UNCHANGED display_df
            ELSE /\ display_df' = Some(normalise(data[1]).frame)
                 /\ pc' = "shown"
                 /\ UNCHANGED error
       ELSE /\ display_df' = data
            /\ pc' = "shown"
            /\ UNCHANGED error
    /\ UNCHANGED << cache, epoch, start, view_mode, qqq, qqq3, data, calls, fetch, seen >>

\* the pass ends: the chart is drawn, or st.error and st.stop
Finish ==
    /\ pc \in {"shown", "failed"}
    /\ pc' = "idle"
    /\ start' = 0
    /\ view_mode' = ""
    /\ qqq' = None
    /\ qqq3' = None
    /\ data' = None
    /\ display_df' = None
    /\ error' = ""
    /\ calls' = << >>
    /\ fetch' = None
    /\ UNCHANGED << cache, epoch, seen >>

\* the provider publishes the next trading day; a pass is short, and the
\* publication falls between two passes
Publish ==
    /\ pc = "idle"
    /\ epoch = 0
    /\ epoch' = epoch + 1
    /\ UNCHANGED << cache, pc, start, view_mode, qqq, qqq3, data, display_df,
                    error, calls, fetch, seen >>

\* normalise(df) called on a table of its own
Normalise ==
    /\ pc = "table"
    /\ IF normalise(data[1]).raised
       THEN /\ error' = "IndexError"
            /\ UNCHANGED display_df
       ELSE /\ display_df' = Some(normalise(data[1]).frame)
            /\ UNCHANGED error
    /\ pc' = "rebased"
    /\ UNCHANGED << cache, epoch, start, view_mode, qqq, qqq3, data, calls, fetch, seen >>

----------------------------------------------------------------------------
(* Specifications *)

\* one start date, any provider response
Next ==
    \/ \E mode \in Modes : Call(DefaultStart, mode)
    \/ Hit
    \/ \E resp \in Responses : Miss(resp)
    \/ Merge
    \/ Render
    \/ Finish

Spec == Init /\ [][Next]_vars

\* Start dates are opaque to the program (a cache key and an argument handed to
\* the provider), so a session's start dates are numbered in the order in which
\* it first selects them: a date already selected, or the next new one.
Selectable ==
    { s \in Starts : \A t \in 1..(s - 1) : \E sym \in {TICKER_BASE, TICKER_LEV} :
                                              << sym, t >> \in CacheKeys(seen) }

\* a session over every start date, the provider publishing on the way
NextSession ==
    \/ \E s \in Selectable, mode \in Modes : Call(s, mode)
    \/ Hit
    \/ Miss(Published(Symbol, epoch))
    \/ Merge
    \/ Render
    \/ Finish
    \/ Publish

SpecSession == Init /\ [][NextSession]_vars

\* normalise as a function of its argument
NextNormalise == Normalise

SpecNormalise == InitNormalise /\ [][NextNormalise]_vars

----------------------------------------------------------------------------
(* Properties *)

\* build_dataset has returned a table (it is main's data)
Returned == data # None

Table == data[1]

Shown == display_df[1]

RowDates(t) == { t[i].date : i \in 1..Len(t) }

\* the dates on which a fetched series has a price
Priced(series) ==
    { series[i].date : i \in { j \in 1..Len(series) : ~IsNaN(series[j].price) } }

\* both calls of _download have returned
BothFetched == qqq # None /\ qqq3 # None

Common == Priced(qqq[1]) \cap Priced(qqq3[1])

\* C1: a table build_dataset returns has its three columns in every row and no
\* missing value in any of them
C1_NoMissingValue ==
    Returned =>
        \A i \in 1..Len(Table) :
            /\ DOMAIN Table[i].v = {"QQQ", "QQQ3.MI", "QQQx3"}
            /\ \A c \in DOMAIN Table[i].v : ~IsNaN(Table[i].v[c])

\* C1 witness: a table was returned although one series has a date the other
\* series lacks, so the join did produce a missing value
C1_Witness ==
    /\ Returned
    /\ BothFetched
    /\ Priced(qqq[1]) # Priced(qqq3[1])

\* the float64 product 3 * x
Triple(x) ==
    IF IsNaN(x) THEN NaN
    ELSE IF IsInf(x) THEN Inf
    ELSE IF x.m = 0 THEN Zero
    ELSE RoundQ(3 * x.m, 1, x.e)

\* C2: in every row of a returned table the synthetic value is 3 times the base
\* value of that row, as float64 computes it
C2_SyntheticIsTriple ==
    Returned =>
        \A i \in 1..Len(Table) : Table[i].v["QQQx3"] = Triple(Table[i].v["QQQ"])

\* C2 witness: a returned table with two rows of different non-zero base prices
C2_Witness ==
    /\ Returned
    /\ Len(Table) = 2
    /\ ~IsZero(Table[1].v["QQQ"])
    /\ ~IsZero(Table[2].v["QQQ"])
    /\ Table[1].v["QQQ"] # Table[2].v["QQQ"]

\* build_dataset has run to its end
BuildEnded == BothFetched /\ pc \in {"built", "shown", "failed"}

\* C3: when both series are fetched, build_dataset raises EmptyOverlap and
\* returns no table if no date has a price in both, and returns a table without
\* raising if some date has
C3_EmptyOverlapIffNoCommonDate ==
    BuildEnded =>
        /\ (Common = {}) => (error = "EmptyOverlap" /\ ~Returned /\ pc = "failed")
        /\ (Common # {}) => (error = "" /\ Returned)

\* C3 witness: EmptyOverlap was raised for two series that both have prices
C3_Witness ==
    /\ BuildEnded
    /\ error = "EmptyOverlap"
    /\ Priced(qqq[1]) # {}
    /\ Priced(qqq3[1]) # {}

\* normalise has returned its frame
Rebased == pc = "rebased" /\ display_df # None

\* the frames have the same dates in the same order and the same columns
SameShape(a, b) ==
    /\ Len(a) = Len(b)
    /\ \A i \in 1..Len(a) :
        /\ a[i].date = b[i].date
        /\ DOMAIN a[i].v = DOMAIN b[i].v

Called == fetch # None /\ fetch[1].called

NoPriceField == fetch[1].columns \cap {"Close", "Adj Close"} = {}

\* C5 as stated: _download raises DataUnavailable and returns no series whenever
\* the response has no rows and whenever it has no price field
C5_RaisesOnNoRows ==
    (Called /\ (fetch[1].norows \/ NoPriceField)) =>
        (fetch[1].raised /\ fetch[1].result = None /\ error = "DataUnavailable")

\* C5 amended: _download raises DataUnavailable and returns no series exactly
\* when the response has neither price field; a response that has a price field
\* is answered with a series, an empty one if the response has no rows
C5_RaisesIffNoPriceField ==
    Called =>
        /\ NoPriceField =>
            (fetch[1].raised /\ fetch[1].result = None /\ error = "DataUnavailable"
             /\ pc = "failed")
        /\ ~NoPriceField =>
            (~fetch[1].raised /\ fetch[1].result # None
             /\ (fetch[1].norows => fetch[1].result = Some(<< >>)))

\* C5 witness: a response with rows and no price field made _download raise
C5_Witness ==
    /\ Called
    /\ NoPriceField
    /\ ~fetch[1].norows
    /\ fetch[1].raised

\* _download was called for a key it had returned a frame for before
Refetched == fetch # None /\ fetch[1].known

\* C6 as stated: a fetch for a key that has succeeded before is always a hit
C6_AlwaysHitOnceFetched ==
    Refetched => (fetch[1].hit /\ ~fetch[1].called)

\* C6 amended: a fetch for a key that has succeeded before is a hit, returning
\* the frame returned before without a call of the provider, if fewer than 8
\* other keys were fetched since that key was last fetched; otherwise the entry
\* has been dropped and the provider is called again
C6_HitWhileAmongLastEight ==
    Refetched =>
        IF fetch[1].rank < 8
        THEN /\ fetch[1].hit
             /\ ~fetch[1].called
             /\ fetch[1].prior # None
             /\ fetch[1].result = fetch[1].prior
             /\ \A i \in 1..Len(calls) : calls[i] # fetch[1].key[1]
        ELSE /\ ~fetch[1].hit
             /\ fetch[1].called

\* the frame _download would return for the provider's present data
Fresh(key) == DownloadFrame(Published(key[1], epoch))

\* C6 witness: a hit for a key with seven other keys fetched since its last
\* use, returning a frame that the provider's present data would not give
C6_Witness ==
    /\ Refetched
    /\ fetch[1].hit
    /\ fetch[1].rank = 7
    /\ fetch[1].result # Some(Fresh(fetch[1].key))

Count(seq, x) == Cardinality({ i \in 1..Len(seq) : seq[i] = x })

\* C7: when _download raises DataUnavailable, build_dataset ends with that
\* error and returns no table, the provider was called once for the failing
\* symbol, and after a failure for the base symbol the leveraged symbol was
\* not fetched
C7_FailurePropagates ==
    (error = "DataUnavailable") =>
        /\ pc = "failed"
        /\ ~Returned
        /\ display_df = None
        /\ fetch # None
        /\ fetch[1].raised
        /\ Count(calls, fetch[1].key[1]) = 1
        /\ calls[Len(calls)] = fetch[1].key[1]
        /\ qqq3 = None
        /\ (fetch[1].key[1] = "QQQ") => (qqq = None /\ Count(calls, "QQQ3.MI") = 0)
        /\ (fetch[1].key[1] = "QQQ3.MI") => qqq # None

\* C7 witness: the fetch for the leveraged symbol failed after the base series
\* was downloaded
C7_Witness ==
    /\ error = "DataUnavailable"
    /\ fetch # None
    /\ fetch[1].key[1] = "QQQ3.MI"
    /\ calls = << "QQQ", "QQQ3.MI" >>

\* C8: normalise returns a table without rows as it is and raises nothing
C8_EmptyUnchanged ==
    (pc = "rebased" /\ Len(Table) = 0) => (error = "" /\ display_df = data)

\* C8 witness: normalise has been applied to the table without rows
C8_Witness ==
    /\ Rebased
    /\ Len(Table) = 0

\* C9: the dates of a returned table are the dates on which both fetched series
\* have a price, each once, and the base and leveraged values of a row are the
\* prices of the fetched series at its date
C9_DatesAreCommonDates ==
    (Returned /\ BothFetched) =>
        /\ RowDates(Table) = Common
        /\ Cardinality(RowDates(Table)) = Len(Table)
        /\ \A i \in 1..Len(Table) :
            /\ \E j \in 1..Len(qqq[1]) :
                /\ qqq[1][j].date = Table[i].date
                /\ qqq[1][j].price = Table[i].v["QQQ"]
            /\ \E j \in 1..Len(qqq3[1]) :
                /\ qqq3[1][j].date = Table[i].date
                /\ qqq3[1][j].price = Table[i].v["QQQ3.MI"]

\* C9 witness: a table was returned for two series of which one has a date
\* that the other lacks, and that date is not in the table
C9_Witness ==
    /\ Returned
    /\ BothFetched
    /\ \E d \in (Priced(qqq[1]) \cup Priced(qqq3[1])) \ Common : d \notin RowDates(Table)
    /\ Len(Table) >= 1

\* the normalised display of a returned table whose first base price is not zero
ShownNormalised ==
    /\ pc = "shown"
    /\ view_mode = "Normalised (start = 100)"
    /\ Returned
    /\ ~IsZero(Table[1].v["QQQ"])

\* 3 * x is a float64: the product is not rounded
TripleIsExact(x) ==
    /\ IsFin(x)
    /\ IsFin(Triple(x))
    /\ Triple(x).m * Pow2(Triple(x).e - EMin) = 3 * x.m * Pow2(x.e - EMin)

====
